---- MODULE Spec2Model ----
(***************************************************************************)
(* Row cursor of the go-ase driver (Rows: Next, NextResultSet,             *)
(* HasNextResultSet, Close, Columns) reading the typed package stream of   *)
(* one statement from the connection's tds.Channel, and the nested         *)
(* transaction example (rawProcess).                                       *)
(***************************************************************************)
EXTENDS Integers, Sequences, FiniteSets, TLC

\* ------------------------------------------------------------------ bounds
MaxLen == 3        \* packages the server sends for one statement (Spec)
MaxRows == 2       \* rows per result set in the scripted streams (SpecScript)
MaxNodes == 2      \* transactions begun on one connection (SpecTx)

\* ---------------------------------------------------------------- packages
\* A column of a row format: name, data type, maximum length.
ColA == [name |-> "a", dataType |-> "INT", maxLength |-> 4]
ColB == [name |-> "b", dataType |-> "CHAR", maxLength |-> 30]
Fmt0 == <<>>
Fmt1 == <<ColA>>
Fmt2 == <<ColA, ColB>>
Formats == {Fmt0, Fmt2}
RowValues == {<<>>, <<1>>, <<1, 2>>}
ScriptFormats == {Fmt0, Fmt1, Fmt2}
ScriptRowValues == {<<>>, <<1>>, <<2>>}
\* The lengths of the destination slices handed to Next: none, and the widths
\* of the rows.
DstSizes == {0} \cup {Len(f) : f \in RowValues \cup ScriptRowValues}

\* tds.Package: one record shape for every package type.
Pkg(t, c, f, m, k) == [type |-> t, Fmts |-> c, DataFields |-> f, more |-> m, ReturnValue |-> k]
RowFmtPackage(c) == Pkg("RowFmt", c, <<>>, FALSE, 0)
RowPackage(f) == Pkg("Row", <<>>, f, FALSE, 0)
OrderByPackage == Pkg("OrderBy", <<>>, <<>>, FALSE, 0)
DonePackage(m) == Pkg("Done", <<>>, <<>>, m, 0)
ReturnStatusPackage(k) == Pkg("ReturnStatus", <<>>, <<>>, FALSE, k)
OtherPackage == Pkg("Other", <<>>, <<>>, FALSE, 0)

Packages ==
    {RowFmtPackage(c) : c \in Formats} \cup {RowPackage(f) : f \in RowValues}
        \cup {OrderByPackage, DonePackage(TRUE), DonePackage(FALSE),
              ReturnStatusPackage(0), ReturnStatusPackage(3), OtherPackage}

\* ------------------------------------------------------------------- state
VARIABLES
    stream,            \* packages the server has put on the Channel, in send order
    pos,               \* how many of them the cursor has consumed
    RowFmt,            \* Rows.RowFmt: [nil |-> TRUE] or the stored RowFmtPackage
    hasNextResultSet,  \* Rows.hasNextResultSet
    dst,               \* the caller's destination slice of the last Next call
    last,              \* the last call of the caller and what it returned
    prog,              \* a scripted caller: the calls it makes, in order
    pc,                \* the next call of prog
    log,               \* what each call of prog returned
    tx,                \* the connection's transactions and the table they change
    txLast,            \* the last transaction call and what it returned
    cancel,            \* the caller's cancellation signal has fired
    inCall             \* the call the caller is inside of, when it has not returned

rowsVars == <<stream, pos, RowFmt, hasNextResultSet, dst, last>>
scriptVars == <<prog, pc, log>>
txVars == <<tx, txLast>>
callVars == <<cancel, inCall>>
vars == <<rowsVars, scriptVars, txVars, callVars>>

NilFmt == [nil |-> TRUE, Fmts |-> <<>>]
SomeFmt(c) == [nil |-> FALSE, Fmts |-> c]

NoCall ==
    [op |-> "none", n |-> 0, err |-> "nil", code |-> 0, ret |-> FALSE, count |-> 0,
     again |-> FALSE, name |-> ""]

\* The caller is inside no call. op: the call; n: the length of its dst; from:
\* the Channel position when it was entered; calls: the NextResultSet calls a
\* Close has made.
NoPending == [op |-> "none", n |-> 0, from |-> 0, calls |-> 0]

\* No transaction open, an empty table.
NoTx == [nodes |-> <<>>, stack |-> <<>>, table |-> {}, durable |-> {}]
NoTxCall == [op |-> "none", node |-> 0, err |-> "nil"]

\* The statement's stream is complete once its Completion(more=false) is sent.
Finished(s) == Len(s) > 0 /\ s[Len(s)].type = "Done" /\ ~s[Len(s)].more

Init ==
    /\ stream = <<>>
    /\ pos = 0
    /\ RowFmt = NilFmt
    /\ hasNextResultSet = FALSE
    /\ dst = <<>>
    /\ last = NoCall
    /\ prog = <<>>
    /\ pc = 1
    /\ log = <<>>
    /\ tx = NoTx
    /\ txLast = NoTxCall
    /\ cancel = FALSE
    /\ inCall = NoPending

\* ------------------------------------------------------------ the cursor
\* The part of the cursor a classifier closure can write: rows.RowFmt,
\* rows.hasNextResultSet and the elements of dst.
Cur(f, h, d) == [RowFmt |-> f, has |-> h, dst |-> d]
Verdict(stop, err, code, cur) == [stop |-> stop, err |-> err, code |-> code, cur |-> cur]

\* handleDonePackage: "more" set continues, "more" clear ends the stream.
handleDonePackage(pkg) ==
    IF pkg.more THEN [ok |-> FALSE, err |-> "nil"] ELSE [ok |-> TRUE, err |-> "EOF"]

\* Next's closure on a RowPackage, with a row that is copied but does not end
\* the call.
NextOnRow_GoesOn(pkg, cur) ==
    IF Len(cur.dst) # Len(pkg.DataFields)
    THEN Verdict(TRUE, "SchemaMismatch", 0, cur)
    ELSE Verdict(FALSE, "nil", 0,
                 Cur(cur.RowFmt, cur.has,
                     [i \in 1..Len(pkg.DataFields) |-> pkg.DataFields[i]]))

\* Next's closure on a RowPackage, with the fields that fit copied before the
\* lengths are compared.
NextOnRow_Partial(pkg, cur) ==
    LET k == IF Len(cur.dst) < Len(pkg.DataFields) THEN Len(cur.dst)
             ELSE Len(pkg.DataFields)
        copied == [i \in 1..Len(cur.dst) |->
                      IF i <= k THEN pkg.DataFields[i] ELSE cur.dst[i]]
    IN  IF Len(cur.dst) # Len(pkg.DataFields)
        THEN Verdict(TRUE, "SchemaMismatch", 0, Cur(cur.RowFmt, cur.has, copied))
        ELSE Verdict(TRUE, "nil", 0, Cur(cur.RowFmt, cur.has, copied))

\* Next's closure on a RowPackage: the row must be as long as dst, then every
\* field's value is copied and the call ends.
NextOnRow(pkg, cur) ==
    IF Len(cur.dst) # Len(pkg.DataFields)
    THEN Verdict(TRUE, "SchemaMismatch", 0, cur)
    ELSE Verdict(TRUE, "nil", 0,
                 Cur(cur.RowFmt, cur.has,
                     [i \in 1..Len(pkg.DataFields) |-> pkg.DataFields[i]]))

\* Next's closure on a ReturnStatusPackage, with every status read as success.
NextOnReturnStatus_Ignored(pkg, cur) == Verdict(FALSE, "nil", 0, cur)

\* Next's closure on a ReturnStatusPackage: a nonzero value fails the query.
NextOnReturnStatus(pkg, cur) ==
    IF pkg.ReturnValue # 0
    THEN Verdict(TRUE, "ProcedureFailed", pkg.ReturnValue, cur)
    ELSE Verdict(FALSE, "nil", 0, cur)

\* The closure Next passes to NextPackageUntil, with a RowFmtPackage stored and
\* read over.
NextProcessPkg_ReadsOverFmt(pkg, cur) ==
    CASE pkg.type = "Row" -> NextOnRow(pkg, cur)
      [] pkg.type = "RowFmt" ->
            Verdict(FALSE, "nil", 0, Cur(SomeFmt(pkg.Fmts), TRUE, cur.dst))
      [] pkg.type = "OrderBy" -> Verdict(FALSE, "nil", 0, cur)
      [] pkg.type = "Done" ->
            LET d == handleDonePackage(pkg)
            IN  IF d.err # "nil" THEN Verdict(TRUE, d.err, 0, cur)
                ELSE Verdict(d.ok, "nil", 0, cur)
      [] pkg.type = "ReturnStatus" -> NextOnReturnStatus(pkg, cur)
      [] OTHER -> Verdict(TRUE, "ProtocolViolation", 0, cur)

\* The closure Next passes to NextPackageUntil, with the flag set on a
\* RowFmtPackage and the package not stored.
NextProcessPkg_FlagOnly(pkg, cur) ==
    CASE pkg.type = "Row" -> NextOnRow(pkg, cur)
      [] pkg.type = "RowFmt" -> Verdict(FALSE, "EOF", 0, Cur(cur.RowFmt, TRUE, cur.dst))
      [] pkg.type = "OrderBy" -> Verdict(FALSE, "nil", 0, cur)
      [] pkg.type = "Done" ->
            LET d == handleDonePackage(pkg)
            IN  IF d.err # "nil" THEN Verdict(TRUE, d.err, 0, cur)
                ELSE Verdict(d.ok, "nil", 0, cur)
      [] pkg.type = "ReturnStatus" -> NextOnReturnStatus(pkg, cur)
      [] OTHER -> Verdict(TRUE, "ProtocolViolation", 0, cur)

\* The closure Next passes to NextPackageUntil.
NextProcessPkg(pkg, cur) ==
    CASE pkg.type = "Row" -> NextOnRow(pkg, cur)
      [] pkg.type = "RowFmt" ->
            Verdict(FALSE, "EOF", 0, Cur(SomeFmt(pkg.Fmts), TRUE, cur.dst))
      [] pkg.type = "OrderBy" -> Verdict(FALSE, "nil", 0, cur)
      [] pkg.type = "Done" ->
            LET d == handleDonePackage(pkg)
            IN  IF d.err # "nil" THEN Verdict(TRUE, d.err, 0, cur)
                ELSE Verdict(d.ok, "nil", 0, cur)
      [] pkg.type = "ReturnStatus" -> NextOnReturnStatus(pkg, cur)
      [] OTHER -> Verdict(TRUE, "ProtocolViolation", 0, cur)

\* The closure NextResultSet passes to NextPackageUntil, with a package of any
\* other type passed over.
NextResultSetProcessPkg_SkipsUnknown(pkg, cur) ==
    CASE pkg.type = "RowFmt" ->
            Verdict(FALSE, "nil", 0, Cur(SomeFmt(pkg.Fmts), TRUE, cur.dst))
      [] pkg.type \in {"Row", "OrderBy"} -> Verdict(TRUE, "nil", 0, cur)
      [] pkg.type = "Done" ->
            IF pkg.more THEN Verdict(FALSE, "nil", 0, cur)
            ELSE Verdict(TRUE, "EOF", 0, cur)
      [] OTHER -> Verdict(FALSE, "nil", 0, cur)

\* The closure NextResultSet passes to NextPackageUntil.
NextResultSetProcessPkg(pkg, cur) ==
    CASE pkg.type = "RowFmt" ->
            Verdict(FALSE, "nil", 0, Cur(SomeFmt(pkg.Fmts), TRUE, cur.dst))
      [] pkg.type \in {"Row", "OrderBy"} -> Verdict(TRUE, "nil", 0, cur)
      [] pkg.type = "Done" ->
            IF pkg.more THEN Verdict(FALSE, "nil", 0, cur)
            ELSE Verdict(TRUE, "EOF", 0, cur)
      [] OTHER -> Verdict(FALSE, "ProtocolViolation", 0, cur)

ProcessPkg(which, pkg, cur) ==
    IF which = "Next" THEN NextProcessPkg(pkg, cur) ELSE NextResultSetProcessPkg(pkg, cur)

\* What a read loop leaves behind: its error, the position it stopped at, the
\* cursor fields, and whether it is still waiting for a package.
Outcome(err, code, p, cur, blocked) ==
    [err |-> err, code |-> code, pos |-> p, cur |-> cur, blocked |-> blocked]

\* A context: whether it is done (cancelled). context.Background() never is.
Context(done) == [done |-> done]
Background == Context(FALSE)

\* tds.Channel.NextPackageUntil over the packages s[p+1..]: read the next
\* package (with wait = FALSE an empty queue is ErrNoPackageReady, with
\* wait = TRUE the call waits for a package or for ctx to be done), hand it to
\* the closure, return its error if any, stop if it says so, else read on.
RECURSIVE NextPackageUntil(_, _, _, _, _, _)
NextPackageUntil(ctx, which, wait, s, p, cur) ==
    IF p >= Len(s)
    THEN IF ~wait THEN Outcome("ErrNoPackageReady", 0, p, cur, FALSE)
         ELSE IF ctx.done THEN Outcome("Cancelled", 0, p, cur, FALSE)
         ELSE Outcome("nil", 0, p, cur, TRUE)
    ELSE LET v == ProcessPkg(which, s[p + 1], cur)
         IN  IF v.err # "nil" THEN Outcome(v.err, v.code, p + 1, v.cur, FALSE)
             ELSE IF v.stop THEN Outcome("nil", 0, p + 1, v.cur, FALSE)
             ELSE NextPackageUntil(ctx, which, wait, s, p + 1, v.cur)

\* Rows.Columns
Columns(fmt) ==
    IF fmt.nil THEN <<>> ELSE [i \in 1..Len(fmt.Fmts) |-> fmt.Fmts[i].name]

\* What a metadata lookup gives: a panic, or a value (a length or a type name)
\* and whether it is available.
Lookup(panic, length, name, ok) ==
    [panic |-> panic, length |-> length, name |-> name, ok |-> ok]

\* Rows.ColumnTypeLength(index), index counted from 0: the format is
\* dereferenced without a nil test, and only its upper end is tested.
ColumnTypeLength(fmt, index) ==
    IF fmt.nil THEN Lookup(TRUE, 0, "", FALSE)
    ELSE IF index >= Len(fmt.Fmts) THEN Lookup(FALSE, 0, "", FALSE)
    ELSE IF index < 0 THEN Lookup(TRUE, 0, "", FALSE)
    ELSE Lookup(FALSE, fmt.Fmts[index + 1].maxLength, "", TRUE)

\* Rows.ColumnTypeDatabaseTypeName(index), index counted from 0.
ColumnTypeDatabaseTypeName(fmt, index) ==
    IF fmt.nil THEN Lookup(TRUE, 0, "", FALSE)
    ELSE IF index >= Len(fmt.Fmts) THEN Lookup(FALSE, 0, "", FALSE)
    ELSE IF index < 0 THEN Lookup(TRUE, 0, "", FALSE)
    ELSE Lookup(FALSE, 0, fmt.Fmts[index + 1].dataType, TRUE)

\* Rows.Next(dst), with the Channel read whatever the format and dst are.
RowsNext_AlwaysReads(s, p, cur) == NextPackageUntil(Background, "Next", TRUE, s, p, cur)

\* Rows.Next(dst) from position p.
RowsNext(s, p, cur) ==
    IF cur.RowFmt.nil /\ Len(cur.dst) = 0
    THEN Outcome("EOF", 0, p, cur, FALSE)
    ELSE NextPackageUntil(Background, "Next", TRUE, s, p, cur)

\* Rows.NextResultSet, with an empty queue reported as an error of its own.
RowsNextResultSet_NotReadyIsError(s, p, cur) ==
    LET r == NextPackageUntil(Background, "NextResultSet", FALSE, s, p, cur)
    IN  IF r.err = "EOF" THEN Outcome("EOF", 0, r.pos, r.cur, FALSE) ELSE r

\* Rows.NextResultSet, with an empty queue read as success.
RowsNextResultSet_NotReadyIsNil(s, p, cur) ==
    LET r == NextPackageUntil(Background, "NextResultSet", FALSE, s, p, cur)
    IN  IF r.err = "ErrNoPackageReady" THEN Outcome("nil", 0, r.pos, r.cur, FALSE)
        ELSE IF r.err = "EOF" THEN Outcome("EOF", 0, r.pos, r.cur, FALSE)
        ELSE r

\* Rows.NextResultSet from position p: an empty queue and io.EOF both read as
\* io.EOF.
RowsNextResultSet(s, p, cur) ==
    LET r == NextPackageUntil(Background, "NextResultSet", FALSE, s, p, cur)
    IN  IF r.err \in {"ErrNoPackageReady", "EOF"}
        THEN Outcome("EOF", 0, r.pos, r.cur, FALSE)
        ELSE r

\* Rows.Close from position p: NextResultSet until io.EOF.
RECURSIVE RowsClose(_, _, _)
RowsClose(s, p, cur) ==
    LET r == RowsNextResultSet(s, p, cur)
    IN  IF r.err = "nil" THEN RowsClose(s, r.pos, r.cur)
        ELSE IF r.err = "EOF" THEN Outcome("nil", 0, r.pos, r.cur, FALSE)
        ELSE r

\* Rows.HasNextResultSet, with the flag left set.
RowsHasNextResultSet_NoClear(has) == [ret |-> has, has |-> has]

\* Rows.HasNextResultSet
RowsHasNextResultSet(has) ==
    IF ~has THEN [ret |-> FALSE, has |-> has] ELSE [ret |-> TRUE, has |-> FALSE]

\* The slice a caller hands to Next: the one it used before when it has the
\* wanted length, else a fresh zeroed one.
DstArg(d, n) == IF Len(d) = n THEN d ELSE [i \in 1..n |-> 0]

Here == Cur(RowFmt, hasNextResultSet, dst)

\* The record of a call: what was called with which length of dst, what it
\* returned, how many packages it consumed, whether it is a HasNextResultSet
\* call right after one that returned true.
Called(op, n, r, ret) ==
    [op |-> op, n |-> n, err |-> r.err, code |-> r.code, ret |-> ret,
     count |-> r.pos - pos,
     again |-> (op = "HasNextResultSet" /\ last.op = "HasNextResultSet" /\ last.ret),
     name |-> ""]

\* ----------------------------------------------------------------- actions
\* The server puts the statement's next package on the Channel.
ServerSend(m) ==
    /\ Len(stream) < MaxLen
    /\ ~Finished(stream)
    /\ stream' = Append(stream, m)
    /\ UNCHANGED <<pos, RowFmt, hasNextResultSet, dst, last>>

\* A call returns: the cursor, the Channel position and dst are as it left them.
Apply(op, n, r) ==
    /\ ~r.blocked
    /\ pos' = r.pos
    /\ RowFmt' = r.cur.RowFmt
    /\ hasNextResultSet' = r.cur.has
    /\ dst' = r.cur.dst
    /\ last' = Called(op, n, r, FALSE)
    /\ UNCHANGED stream

CallNext(n) ==
    Apply("Next", n, RowsNext(stream, pos, Cur(RowFmt, hasNextResultSet, DstArg(dst, n))))

CallNextResultSet == Apply("NextResultSet", 0, RowsNextResultSet(stream, pos, Here))

CallClose == Apply("Close", 0, RowsClose(stream, pos, Here))

CallHasNextResultSet ==
    LET h == RowsHasNextResultSet(hasNextResultSet)
    IN  /\ hasNextResultSet' = h.has
        /\ last' = Called("HasNextResultSet", 0, Outcome("nil", 0, pos, Here, FALSE), h.ret)
        /\ UNCHANGED <<stream, pos, RowFmt, dst>>

\* A metadata lookup of column index: the cursor and the Channel are left alone.
CallLookup(op, index) ==
    LET r == IF op = "ColumnTypeLength" THEN ColumnTypeLength(RowFmt, index)
             ELSE ColumnTypeDatabaseTypeName(RowFmt, index)
    IN  /\ last' = [NoCall EXCEPT !.op = op, !.n = index,
                                  !.err = IF r.panic THEN "panic" ELSE "nil",
                                  !.code = r.length, !.name = r.name, !.ret = r.ok]
        /\ UNCHANGED <<stream, pos, RowFmt, hasNextResultSet, dst>>

\* Any caller, any server: calls and deliveries interleave freely.
Send == (\E m \in Packages : ServerSend(m)) /\ UNCHANGED <<scriptVars, txVars, callVars>>
DoNext == (\E n \in DstSizes : CallNext(n)) /\ UNCHANGED <<scriptVars, txVars, callVars>>
DoNextResultSet == CallNextResultSet /\ UNCHANGED <<scriptVars, txVars, callVars>>
DoHasNextResultSet == CallHasNextResultSet /\ UNCHANGED <<scriptVars, txVars, callVars>>
DoClose == CallClose /\ UNCHANGED <<scriptVars, txVars, callVars>>

Next ==
    \/ Send
    \/ DoNext
    \/ DoNextResultSet
    \/ DoHasNextResultSet
    \/ DoClose

Spec == Init /\ [][Next]_vars

\* ---------------------------------------------------- calls that take time
\* A caller that is inside a call until the call returns, a server that sends
\* when it likes, and the caller's cancellation signal.
LivePackages ==
    {RowFmtPackage(Fmt1), RowPackage(<<1>>), DonePackage(TRUE), DonePackage(FALSE),
     OtherPackage}
LiveDstSizes == {0, 1}

Idle == inCall.op = "none"
Enter(op, n) == [op |-> op, n |-> n, from |-> pos, calls |-> 0]

LiveSend ==
    /\ \E m \in LivePackages : ServerSend(m)
    /\ UNCHANGED <<scriptVars, txVars, callVars>>

\* The caller's cancellation signal fires.
Cancel ==
    /\ ~cancel
    /\ cancel' = TRUE
    /\ UNCHANGED <<rowsVars, scriptVars, txVars, inCall>>

EnterNext ==
    /\ Idle
    /\ \E n \in LiveDstSizes : inCall' = Enter("Next", n)
    /\ UNCHANGED <<rowsVars, scriptVars, txVars, cancel>>

\* Next returns once its read loop has an outcome; until then it waits in the
\* Channel.
ReturnNext ==
    /\ inCall.op = "Next"
    /\ CallNext(inCall.n)
    /\ inCall' = [inCall EXCEPT !.op = "none"]
    /\ UNCHANGED <<scriptVars, txVars, cancel>>

\* NextResultSet never waits.
LiveNextResultSet ==
    /\ Idle
    /\ CallNextResultSet
    /\ UNCHANGED <<scriptVars, txVars, callVars>>

EnterClose ==
    /\ Idle
    /\ inCall' = Enter("Close", 0)
    /\ UNCHANGED <<rowsVars, scriptVars, txVars, cancel>>

\* One turn of the loop of Close: a NextResultSet call; nil loops on, io.EOF
\* returns nil, any other error is returned. The calls are counted up to
\* MaxLen + 2.
CloseTurn ==
    /\ inCall.op = "Close"
    /\ LET r == RowsNextResultSet(stream, pos, Here)
           calls == IF inCall.calls < MaxLen + 2 THEN inCall.calls + 1 ELSE inCall.calls
       IN  /\ ~r.blocked
           /\ pos' = r.pos
           /\ RowFmt' = r.cur.RowFmt
           /\ hasNextResultSet' = r.cur.has
           /\ dst' = r.cur.dst
           /\ IF r.err = "nil"
              THEN /\ inCall' = [inCall EXCEPT !.calls = calls]
                   /\ UNCHANGED last
              ELSE /\ inCall' = [inCall EXCEPT !.op = "none", !.calls = calls]
                   /\ last' = [NoCall EXCEPT !.op = "Close",
                                             !.err = IF r.err = "EOF" THEN "nil" ELSE r.err,
                                             !.count = r.pos - inCall.from]
    /\ UNCHANGED <<stream, scriptVars, txVars, cancel>>

NextLive ==
    \/ LiveSend
    \/ Cancel
    \/ EnterNext
    \/ ReturnNext
    \/ LiveNextResultSet
    \/ EnterClose
    \/ CloseTurn

\* A call the caller is inside of goes on running: it returns when it can.
SpecLive == Init /\ [][NextLive]_vars /\ WF_vars(ReturnNext) /\ WF_vars(CloseTurn)

\* ------------------------------------------------------- scripted callers
\* The packages of one result set: its format, its rows, its completion.
RECURSIVE SeqsUpTo(_, _)
SeqsUpTo(S, k) ==
    IF k = 0 THEN {<<>>}
    ELSE LET shorter == SeqsUpTo(S, k - 1)
         IN  shorter \cup {Append(q, x) : q \in shorter, x \in S}

RowSeqs == SeqsUpTo({RowPackage(f) : f \in ScriptRowValues}, MaxRows)
ResultSet(c, rs, more) == <<RowFmtPackage(c)>> \o rs \o <<DonePackage(more)>>

\* Statements with one or two result sets, wholly delivered.
ScriptStreams ==
    LET final == {ResultSet(c, rs, FALSE) : c \in ScriptFormats, rs \in RowSeqs}
        first == {ResultSet(c, rs, TRUE) : c \in ScriptFormats, rs \in RowSeqs}
    IN  final \cup {a \o b : a \in first, b \in final}

CallOf(op, n) == [op |-> op, n |-> n]
Iterate(n) == [i \in 1..(MaxRows + 2) |-> CallOf("Next", n)]
Switch(n) ==
    <<CallOf("Next", n), CallOf("HasNextResultSet", 0),
      CallOf("NextResultSet", 0), CallOf("Next", n)>>
Drain == <<CallOf("Close", 0), CallOf("Close", 0)>>
\* readTable: execute the statement, then Next with the same dst until it
\* returns an error.
ReadTable(n) == <<CallOf("DirectExec", 0)>> \o Iterate(n)

\* The column indexes looked up: below the range, the first column, beyond
\* every format.
Indexes == {-1, 0, 2}
LookupOps == {"ColumnTypeLength", "ColumnTypeDatabaseTypeName"}
\* A metadata lookup on a cursor as constructed, or right after the statement
\* was executed.
Describe(op, i) == <<CallOf(op, i)>>
ExecDescribe(op, i) == <<CallOf("DirectExec", 0), CallOf(op, i)>>

\* The standard iteration over all result sets of an executed statement.
ExecStandard == <<CallOf("DirectExec", 0), CallOf("Standard", 0)>>

Progs ==
    {ReadTable(n) : n \in DstSizes} \cup {Switch(n) : n \in DstSizes} \cup {Drain}
        \cup {Describe(op, i) : op \in LookupOps, i \in Indexes}
        \cup {ExecDescribe(op, i) : op \in LookupOps, i \in Indexes}
        \cup {ExecStandard}

InitScript ==
    /\ stream \in ScriptStreams
    /\ pos = 0
    /\ RowFmt = NilFmt
    /\ hasNextResultSet = FALSE
    /\ dst = <<>>
    /\ last = NoCall
    /\ prog \in Progs
    /\ pc = 1
    /\ log = <<>>
    /\ tx = NoTx
    /\ txLast = NoTxCall
    /\ cancel = FALSE
    /\ inCall = NoPending

\* One call of prog returns; log keeps its result, the row it left in dst and
\* Columns() after it.
Logged ==
    /\ pc' = pc + 1
    /\ log' = Append(log, [op |-> last'.op, err |-> last'.err, ret |-> last'.ret,
                           row |-> dst', cols |-> Columns(RowFmt'), pos |-> pos'])
    /\ UNCHANGED <<prog, txVars, callVars>>

\* readTable returns at the first Next that returns an error, io.EOF included.
Returned ==
    /\ Len(prog) >= 2
    /\ prog[1].op = "DirectExec"
    /\ prog[2].op \in {"Next"} \cup LookupOps
    /\ \E i \in 2..Len(log) : log[i].err # "nil"

Ready(op) == pc <= Len(prog) /\ prog[pc].op = op /\ ~Returned

\* Statement execution hands out the cursor of a statement that returns rows:
\* the RowFormat that opens the first result set is consumed and is the
\* cursor's format.
StepDirectExec ==
    /\ Ready("DirectExec")
    /\ pos = 0
    /\ stream # <<>>
    /\ stream[1].type = "RowFmt"
    /\ Apply("DirectExec", 0,
             Outcome("nil", 0, 1, Cur(SomeFmt(stream[1].Fmts), FALSE, dst), FALSE))
    /\ Logged

StepNext == Ready("Next") /\ CallNext(prog[pc].n) /\ Logged
StepNextResultSet == Ready("NextResultSet") /\ CallNextResultSet /\ Logged
StepHasNextResultSet == Ready("HasNextResultSet") /\ CallHasNextResultSet /\ Logged
StepClose == Ready("Close") /\ CallClose /\ Logged
StepLookup ==
    /\ pc <= Len(prog)
    /\ prog[pc].op \in LookupOps
    /\ ~Returned
    /\ CallLookup(prog[pc].op, prog[pc].n)
    /\ Logged

\* The call the standard iteration makes next: Next until it returns an error;
\* on io.EOF HasNextResultSet; when that is true NextResultSet, and on its
\* success Next again.
Following ==
    IF log = <<>> \/ log[Len(log)].op = "DirectExec" THEN "Next"
    ELSE LET e == log[Len(log)]
         IN  CASE e.op = "Next" /\ e.err = "nil" -> "Next"
               [] e.op = "Next" /\ e.err = "EOF" -> "HasNextResultSet"
               [] e.op = "HasNextResultSet" /\ e.ret -> "NextResultSet"
               [] e.op = "NextResultSet" /\ e.err = "nil" -> "Next"
               [] OTHER -> "done"

\* One call of the standard iteration; dst is as long as Columns().
StepStandard ==
    /\ pc <= Len(prog)
    /\ prog[pc].op = "Standard"
    /\ \/ Following = "Next" /\ CallNext(Len(Columns(RowFmt)))
       \/ Following = "HasNextResultSet" /\ CallHasNextResultSet
       \/ Following = "NextResultSet" /\ CallNextResultSet
    /\ log' = Append(log, [op |-> last'.op, err |-> last'.err, ret |-> last'.ret,
                           row |-> dst', cols |-> Columns(RowFmt'), pos |-> pos'])
    /\ UNCHANGED <<prog, pc, txVars, callVars>>

NextScript ==
    \/ StepDirectExec
    \/ StepNext
    \/ StepNextResultSet
    \/ StepHasNextResultSet
    \/ StepClose
    \/ StepLookup
    \/ StepStandard

SpecScript == InitScript /\ [][NextScript]_vars

\* ------------------------------------------------------------ transactions
\* A transaction node: its name ("" for an anonymous savepoint), its parent (0
\* for none), whether it is open, the table as it was when the node was opened,
\* how it was closed, and whether a close of it was ever refused.
Node(name, parent, saved) ==
    [name |-> name, parent |-> parent, open |-> TRUE, saved |-> saved,
     closedBy |-> "", refused |-> FALSE]

Top(stack) == IF stack = <<>> THEN 0 ELSE stack[Len(stack)]
Pop(stack) == SubSeq(stack, 1, Len(stack) - 1)
InStack(k, stack) == \E i \in 1..Len(stack) : stack[i] = k
TxResult(err, t) == [err |-> err, tx |-> t]

\* A close of node k that is not the top of the stack is refused.
Refuse(t, k) ==
    TxResult("IllegalNesting",
             IF k \in 1..Len(t.nodes)
             THEN [t EXCEPT !.nodes[k].refused = TRUE]
             ELSE t)

\* Begin: a name only for the outermost transaction; the new node is nested
\* under the current top and pushed.
TxBegin(t, name) ==
    IF name # "" /\ t.stack # <<>>
    THEN TxResult("IllegalNesting", t)
    ELSE TxResult("nil",
                  [t EXCEPT !.nodes = Append(@, Node(name, Top(t.stack), t.table)),
                            !.stack = Append(@, Len(t.nodes) + 1)])

\* Commit(node), with no look at the stack above the node: the node and all
\* above it are popped.
TxCommit_NoTopCheck(t, k) ==
    IF ~InStack(k, t.stack)
    THEN Refuse(t, k)
    ELSE LET i == CHOOSE j \in 1..Len(t.stack) : t.stack[j] = k
         IN  TxResult("nil",
                      [t EXCEPT !.nodes[k].open = FALSE,
                                !.nodes[k].closedBy = "commit",
                                !.stack = SubSeq(@, 1, i - 1),
                                !.durable = IF i = 1 THEN t.table ELSE @])

\* Commit(node): only the top of the stack; pops it; the outermost commit makes
\* the table durable.
TxCommit(t, k) ==
    IF t.stack = <<>> \/ Top(t.stack) # k
    THEN Refuse(t, k)
    ELSE TxResult("nil",
                  [t EXCEPT !.nodes[k].open = FALSE,
                            !.nodes[k].closedBy = "commit",
                            !.stack = Pop(@),
                            !.durable = IF Len(t.stack) = 1 THEN t.table ELSE @])

\* Rollback(node), with no look at the stack above the node: the node and all
\* above it are popped.
TxRollback_NoTopCheck(t, k) ==
    IF ~InStack(k, t.stack)
    THEN Refuse(t, k)
    ELSE LET i == CHOOSE j \in 1..Len(t.stack) : t.stack[j] = k
         IN  TxResult("nil",
                      [t EXCEPT !.nodes[k].open = FALSE,
                                !.nodes[k].closedBy = "rollback",
                                !.stack = SubSeq(@, 1, i - 1),
                                !.table = t.nodes[k].saved])

\* Rollback(node): only the top of the stack; the table is again what it was
\* when the node was opened; pops it.
TxRollback(t, k) ==
    IF t.stack = <<>> \/ Top(t.stack) # k
    THEN Refuse(t, k)
    ELSE TxResult("nil",
                  [t EXCEPT !.nodes[k].open = FALSE,
                            !.nodes[k].closedBy = "rollback",
                            !.stack = Pop(@),
                            !.table = t.nodes[k].saved])

\* A statement that inserts a row: part of the innermost open transaction,
\* durable at once when none is open.
TxInsert(t, row) ==
    TxResult("nil",
             [t EXCEPT !.table = @ \cup {row},
                       !.durable = IF t.stack = <<>> THEN @ \cup {row} ELSE @])

RowA == [a |-> 2147483647, b |-> "a string"]
RowB == [a |-> 1000, b |-> "another string"]

TxCall(op, node, name, row) == [op |-> op, node |-> node, name |-> name, row |-> row]

\* rawProcess, with the subtransaction committed where it is rolled back.
rawProcess_CommitInner ==
    <<TxCall("Begin", 0, "outer", RowA),
      TxCall("Insert", 0, "", RowA),
      TxCall("Read", 0, "", RowA),
      TxCall("Begin", 1, "", RowA),
      TxCall("Insert", 0, "", RowB),
      TxCall("Read", 0, "", RowA),
      TxCall("Commit", 2, "", RowA),
      TxCall("Read", 0, "", RowA),
      TxCall("Commit", 1, "", RowA)>>

\* rawProcess of the subtransaction example: tx is node 1, subTx is node 2.
rawProcess ==
    <<TxCall("Begin", 0, "outer", RowA),
      TxCall("Insert", 0, "", RowA),
      TxCall("Read", 0, "", RowA),
      TxCall("Begin", 1, "", RowA),
      TxCall("Insert", 0, "", RowB),
      TxCall("Read", 0, "", RowA),
      TxCall("Rollback", 2, "", RowA),
      TxCall("Read", 0, "", RowA),
      TxCall("Commit", 1, "", RowA)>>

\* What a call does to the transactions and the table.
TxDo(t, c) ==
    CASE c.op = "Begin" -> TxBegin(t, c.name)
      [] c.op = "Commit" -> TxCommit(t, c.node)
      [] c.op = "Rollback" -> TxRollback(t, c.node)
      [] c.op = "Insert" -> TxInsert(t, c.row)
      [] OTHER -> TxResult("nil", t)

TxApply(c) ==
    LET r == TxDo(tx, c)
    IN  /\ tx' = r.tx
        /\ txLast' = [op |-> c.op, node |-> c.node, err |-> r.err]

\* The calls any caller may make: begin under the current top (named or not),
\* commit or roll back any node it holds, insert a row.
TxFree == prog = <<>>
FreeBegin ==
    /\ TxFree
    /\ Len(tx.nodes) < MaxNodes
    /\ \E name \in {"", "t1"} : TxApply(TxCall("Begin", Top(tx.stack), name, RowA))
    /\ UNCHANGED <<rowsVars, scriptVars, callVars>>
FreeCommit ==
    /\ TxFree
    /\ \E k \in 1..Len(tx.nodes) : TxApply(TxCall("Commit", k, "", RowA))
    /\ UNCHANGED <<rowsVars, scriptVars, callVars>>
FreeRollback ==
    /\ TxFree
    /\ \E k \in 1..Len(tx.nodes) : TxApply(TxCall("Rollback", k, "", RowA))
    /\ UNCHANGED <<rowsVars, scriptVars, callVars>>
FreeInsert ==
    /\ TxFree
    /\ \E row \in {RowA, RowB} : TxApply(TxCall("Insert", 0, "", row))
    /\ UNCHANGED <<rowsVars, scriptVars, callVars>>

\* rawProcess makes its next call and returns at the first error; log keeps the
\* error of the call and the rows readTable would print after it.
RawStep ==
    /\ ~TxFree
    /\ pc <= Len(prog)
    /\ \A i \in 1..Len(log) : log[i].err = "nil"
    /\ TxApply(prog[pc])
    /\ pc' = pc + 1
    /\ log' = Append(log, [op |-> prog[pc].op, err |-> txLast'.err, rows |-> tx'.table])
    /\ UNCHANGED <<rowsVars, prog, callVars>>

InitTx ==
    /\ stream = <<>>
    /\ pos = 0
    /\ RowFmt = NilFmt
    /\ hasNextResultSet = FALSE
    /\ dst = <<>>
    /\ last = NoCall
    /\ prog \in {<<>>, rawProcess}
    /\ pc = 1
    /\ log = <<>>
    /\ tx = NoTx
    /\ txLast = NoTxCall
    /\ cancel = FALSE
    /\ inCall = NoPending

NextTx ==
    \/ FreeBegin
    \/ FreeCommit
    \/ FreeRollback
    \/ FreeInsert
    \/ RawStep

SpecTx == InitTx /\ [][NextTx]_vars

\* ------------------------------------------------------------------ claims
Names(c) == [i \in 1..Len(c) |-> c[i].name]
\* A step of the caller: the server's steps are those that change stream.
ACall == stream' = stream

\* [RowFormat(c), Row(r1), ..., Row(rn), Completion(more=false)], every row as
\* wide as c.
SingleSet(s) ==
    /\ Len(s) >= 2
    /\ s[1].type = "RowFmt"
    /\ s[Len(s)] = DonePackage(FALSE)
    /\ \A i \in 2..(Len(s) - 1) :
          s[i].type = "Row" /\ Len(s[i].DataFields) = Len(s[1].Fmts)

\* Such a stream read as readTable does, with a destination as wide as c.
IterateCase == SingleSet(stream) /\ prog = ReadTable(Len(stream[1].Fmts))

\* C1: on such a stream the Next calls of the iteration return r1, ..., rn in
\* send order and then Depleted, and Columns() is the names of c before the
\* first call and after every call.
C1_IterateYieldsRows ==
    IterateCase =>
        /\ \A i \in 2..Len(log) :
              /\ i <= Len(stream)
              /\ (i < Len(stream) =>
                      log[i].err = "nil" /\ log[i].row = stream[i].DataFields)
              /\ (i = Len(stream) => log[i].err = "EOF")
              /\ log[i].cols = Names(stream[1].Fmts)
        /\ (Len(log) >= 1 => Columns(RowFmt) = Names(stream[1].Fmts))

C1_Witness ==
    /\ IterateCase
    /\ Len(stream) = 4
    /\ stream[2] # stream[3]
    /\ Len(log) = 4
    /\ log[2].row = stream[2].DataFields
    /\ log[3].row = stream[3].DataFields
    /\ log[4].err = "EOF"

\* [RowFormat(c1), Completion(more=true), RowFormat(c2), Row(r),
\* Completion(more=false)], r with at least one field, read by Next,
\* HasNextResultSet, NextResultSet, Next with a destination as wide as r.
SwitchCase ==
    /\ Len(stream) = 5
    /\ stream[1].type = "RowFmt"
    /\ stream[2] = DonePackage(TRUE)
    /\ stream[3].type = "RowFmt"
    /\ stream[4].type = "Row"
    /\ stream[4].DataFields # <<>>
    /\ stream[5] = DonePackage(FALSE)
    /\ prog = Switch(Len(stream[4].DataFields))

\* C2 as stated: the first Next reports Depleted, HasNextResultSet then returns
\* true, and NextResultSet followed by Next yields r under the format c2.
C2_AsStated ==
    SwitchCase =>
        /\ (Len(log) >= 1 => log[1].err = "EOF")
        /\ (Len(log) >= 2 => log[2].ret)
        /\ (Len(log) >= 3 => log[3].err = "nil")
        /\ (Len(log) >= 4 =>
                /\ log[4].err = "nil"
                /\ log[4].row = stream[4].DataFields
                /\ log[4].cols = Names(stream[3].Fmts))

\* C3 as stated: when Close returns success the whole statement, up to and
\* including its Completion(more=false), has been consumed.
C3_AsStated ==
    (last.op = "Close" /\ last.err = "nil") => (Finished(stream) /\ pos = Len(stream))

\* C4: HasNextResultSet returns the flag as it was and leaves it cleared, so a
\* call right after one that returned true returns false.
C4_EdgeTriggered ==
    [][(ACall /\ last'.op = "HasNextResultSet") =>
            /\ last'.ret = hasNextResultSet
            /\ ~hasNextResultSet'
            /\ ((last.op = "HasNextResultSet" /\ last.ret) => ~last'.ret)]_vars

C4_Witness ==
    last.op = "HasNextResultSet" /\ last.again /\ ~last.ret /\ ~hasNextResultSet

\* C5: a Next call that meets a Row whose field count is not the length of dst
\* fails with Schema Mismatch and writes no element of dst.
C5_MismatchLeavesDst ==
    [][(/\ ACall
        /\ last'.op = "Next"
        /\ last'.count > 0
        /\ stream[pos'].type = "Row"
        /\ Len(stream[pos'].DataFields) # last'.n) =>
            (last'.err = "SchemaMismatch" /\ dst' = DstArg(dst, last'.n))]_vars

C5_Witness ==
    /\ last.op = "Next"
    /\ last.err = "SchemaMismatch"
    /\ dst = <<1, 2>>
    /\ stream[pos] = RowPackage(<<1>>)

\* C6: a Next call that meets a ReturnStatus with a nonzero code stops there and
\* fails with Procedure Failed carrying that code; it never stops at a
\* ReturnStatus with code zero.
C6_ReturnStatus ==
    (last.op = "Next" /\ last.count > 0) =>
        /\ \A i \in (pos - last.count + 1)..pos :
              (stream[i].type = "ReturnStatus" /\ stream[i].ReturnValue # 0) =>
                  /\ i = pos
                  /\ last.err = "ProcedureFailed"
                  /\ last.code = stream[i].ReturnValue
        /\ ~(stream[pos].type = "ReturnStatus" /\ stream[pos].ReturnValue = 0)

C6_Witness ==
    /\ last.op = "Next"
    /\ last.count = 2
    /\ stream[pos - 1] = ReturnStatusPackage(0)
    /\ last.err = "ProcedureFailed"
    /\ last.code = 3
    /\ pos < Len(stream)

\* C7: Close called once the Completion(more=false) has been consumed consumes
\* nothing and returns success.
C7_CloseWhenDepleted ==
    [][(ACall /\ last'.op = "Close" /\ Finished(stream) /\ pos = Len(stream)) =>
            (pos' = pos /\ last'.err = "nil")]_vars

C7_Witness ==
    /\ last.op = "Close"
    /\ last.count = 0
    /\ last.err = "nil"
    /\ Finished(stream)
    /\ pos = Len(stream)

\* C8 as stated: when NextResultSet returns success the last package it consumed
\* is a RowFormat, now the active format, and the boundary flag is set.
C8_AsStated ==
    (last.op = "NextResultSet" /\ last.err = "nil") =>
        /\ stream[pos].type = "RowFmt"
        /\ RowFmt = SomeFmt(stream[pos].Fmts)
        /\ hasNextResultSet

\* C9: Commit of a node that still has an open child above it fails with Illegal
\* Nesting and leaves the stack as it is; Rollback of the child pops it; Commit
\* of the one node left succeeds and leaves the stack empty.
C9_CommitNesting ==
    [][LET k == txLast'.node
        IN  /\ (txLast'.op = "Commit" /\ InStack(k, tx.stack) /\ Top(tx.stack) # k) =>
                    (txLast'.err = "IllegalNesting" /\ tx'.stack = tx.stack)
            /\ (txLast'.op = "Rollback" /\ Len(tx.stack) >= 2 /\ Top(tx.stack) = k) =>
                    (txLast'.err = "nil" /\ tx'.stack = Pop(tx.stack))
            /\ (txLast'.op = "Commit" /\ tx.stack = <<k>>) =>
                    (txLast'.err = "nil" /\ tx'.stack = <<>>)]_vars

C9_Witness ==
    /\ Len(tx.nodes) = 2
    /\ tx.nodes[1].name = "t1"
    /\ tx.nodes[1].refused
    /\ tx.nodes[1].closedBy = "commit"
    /\ tx.nodes[2].parent = 1
    /\ tx.nodes[2].closedBy = "rollback"
    /\ tx.stack = <<>>
    /\ txLast = [op |-> "Commit", node |-> 1, err |-> "nil"]

\* C10: in rawProcess (begin outer, insert A, begin inner, insert B, rollback
\* inner, commit outer) the rows visible after the rollback are exactly {A} with
\* the outer transaction still open, and after the outer commit they are still
\* exactly {A}, durably.
C10_InnerRollback ==
    (prog = rawProcess) =>
        /\ (Len(log) >= 6 => log[6].rows = {RowA, RowB})
        /\ (Len(log) \in {7, 8} => tx.stack = <<1>> /\ tx.table = {RowA})
        /\ (Len(log) >= 8 => log[8].err = "nil" /\ log[8].rows = {RowA})
        /\ (Len(log) >= 9 =>
                /\ log[9].err = "nil"
                /\ tx.stack = <<>>
                /\ tx.table = {RowA}
                /\ tx.durable = {RowA})

C10_Witness ==
    /\ prog = rawProcess
    /\ Len(log) = 9
    /\ log[7].op = "Rollback"
    /\ log[8].rows = {RowA}
    /\ tx.durable = {RowA}

\* C11 as stated: a metadata lookup with an index outside the range of the
\* active format, the state with no format included, does not fail and returns
\* the "not available" sentinel: (0, false), or "".
C11_AsStated ==
    (/\ last.op \in LookupOps
     /\ (RowFmt.nil \/ last.n < 0 \/ last.n >= Len(RowFmt.Fmts))) =>
        (last.err = "nil" /\ ~last.ret /\ last.code = 0 /\ last.name = "")

\* The package types a call has no case for.
Unknown(op, pkg) == pkg.type = "Other" \/ (op # "Next" /\ pkg.type = "ReturnStatus")

\* C12: a package of a type the call has no case for is never passed over: the
\* Next, NextResultSet or Close call that meets it stops reading there and
\* returns a Protocol Violation error.
C12_UnknownStops ==
    (last.op \in {"Next", "NextResultSet", "Close"} /\ last.count > 0) =>
        \A i \in (pos - last.count + 1)..pos :
            Unknown(last.op, stream[i]) => (i = pos /\ last.err = "ProtocolViolation")

C12_Witness ==
    /\ last.op = "Close"
    /\ last.count >= 2
    /\ last.err = "ProtocolViolation"
    /\ stream[pos].type = "Other"
    /\ pos < Len(stream)

\* The caller is inside Next and Next waits in the Channel for a package.
Blocked ==
    /\ inCall.op = "Next"
    /\ RowsNext(stream, pos, Cur(RowFmt, hasNextResultSet, DstArg(dst, inCall.n))).blocked

\* C13 as stated: when the caller's cancellation signal has fired while a call
\* waits in the Channel for the server's next package, the call eventually
\* returns a Cancelled error.
C13_AsStated ==
    (Blocked /\ cancel) ~> (Idle /\ last.op = "Next" /\ last.err = "Cancelled")

\* The caller is inside Close.
Closing == inCall.op = "Close"

\* C20: Close returns. When it does it has made no more NextResultSet calls
\* than the packages it consumed and one; if it met no package NextResultSet
\* has no case for, it returns success, at the end of the queue or right after a
\* Completion(more=false); else it returns the Protocol Violation error of the
\* first such package, which is the last package it consumed.
C20_CloseTerminates ==
    /\ [][(Closing /\ ~Closing') =>
             LET met == {i \in (inCall.from + 1)..pos' : Unknown("Close", stream[i])}
             IN  /\ inCall'.calls <= (pos' - inCall.from) + 1
                 /\ last'.op = "Close"
                 /\ IF met = {}
                    THEN /\ last'.err = "nil"
                         /\ (pos' = Len(stream) \/ stream[pos'] = DonePackage(FALSE))
                    ELSE /\ last'.err = "ProtocolViolation"
                         /\ met = {pos'}]_vars
    /\ (Closing ~> ~Closing)

C20_Witness ==
    /\ Idle
    /\ last.op = "Close"
    /\ last.err = "nil"
    /\ inCall.calls = 3
    /\ last.count = 3
    /\ Finished(stream)
    /\ pos = Len(stream)

\* C14 as stated: NextResultSet reports Depleted only when the last package the
\* cursor consumed is a Completion(more=false), whatever the server has
\* delivered so far.
C14_AsStated ==
    (last.op = "NextResultSet" /\ last.err = "EOF") =>
        (pos > 0 /\ stream[pos] = DonePackage(FALSE))

\* C15 as stated: a Next call that reports success has consumed exactly one
\* package.
C15_AsStated == (last.op = "Next" /\ last.err = "nil") => last.count = 1

\* The packages Next reads over: OrderBy, Completion(more=true), ReturnStatus 0.
ReadOver(pkg) ==
    \/ pkg.type = "OrderBy"
    \/ pkg = DonePackage(TRUE)
    \/ pkg = ReturnStatusPackage(0)

\* C15: a Next call that reports success has consumed exactly one Row, as wide
\* as dst and the last package it consumed; every package it consumed before
\* is one that Next reads over.
C15_OneRow ==
    (last.op = "Next" /\ last.err = "nil") =>
        /\ last.count >= 1
        /\ stream[pos].type = "Row"
        /\ Len(stream[pos].DataFields) = last.n
        /\ dst = stream[pos].DataFields
        /\ \A i \in (pos - last.count + 1)..(pos - 1) : ReadOver(stream[i])

C15_Witness ==
    /\ last.op = "Next"
    /\ last.err = "nil"
    /\ last.count = 3
    /\ stream[1].type = "OrderBy"
    /\ stream[2] = DonePackage(TRUE)
    /\ stream[3] = RowPackage(<<1, 2>>)

\* C16: the stack holds exactly the open nodes, each above its parent; it
\* changes only by a successful Begin pushing a node or by a successful Commit
\* or Rollback of its top popping that node; Commit or Rollback of any other
\* node fails with Illegal Nesting and leaves it as it is; so a node is never
\* closed while a node opened under it is open.
C16_Lifo ==
    /\ [](/\ \A i \in 1..Len(tx.stack) :
                /\ tx.nodes[tx.stack[i]].open
                /\ tx.nodes[tx.stack[i]].parent = (IF i = 1 THEN 0 ELSE tx.stack[i - 1])
          /\ \A k \in 1..Len(tx.nodes) :
                /\ tx.nodes[k].open => InStack(k, tx.stack)
                /\ (tx.nodes[k].open /\ tx.nodes[k].parent # 0) =>
                        tx.nodes[tx.nodes[k].parent].open)
    /\ [][LET k == txLast'.node
              closes == txLast'.op \in {"Commit", "Rollback"}
          IN  /\ (tx'.stack # tx.stack) =>
                    \/ /\ txLast'.op = "Begin"
                       /\ txLast'.err = "nil"
                       /\ Len(tx'.stack) = Len(tx.stack) + 1
                       /\ Pop(tx'.stack) = tx.stack
                    \/ /\ closes
                       /\ txLast'.err = "nil"
                       /\ tx.stack # <<>>
                       /\ k = Top(tx.stack)
                       /\ tx'.stack = Pop(tx.stack)
                       /\ ~tx'.nodes[k].open
              /\ (closes /\ Top(tx.stack) # k) =>
                    (txLast'.err = "IllegalNesting" /\ tx'.stack = tx.stack)
              /\ (closes /\ tx.stack # <<>> /\ Top(tx.stack) = k) =>
                    (txLast'.err = "nil" /\ tx'.stack = Pop(tx.stack))]_vars

C16_Witness ==
    /\ Len(tx.nodes) = 2
    /\ tx.nodes[2].parent = 1
    /\ tx.nodes[1].refused
    /\ tx.nodes[2].closedBy = "commit"
    /\ tx.nodes[1].closedBy = "rollback"
    /\ tx.stack = <<>>
    /\ txLast = [op |-> "Rollback", node |-> 1, err |-> "nil"]

\* The positions of the RowFormats among the first p packages of s.
FmtsSeen(s, p) == {i \in 1..p : s[i].type = "RowFmt"}

C18_NothingToRead ==
    [][(ACall /\ last'.op = "Next" /\ last'.n = 0 /\ RowFmt.nil) =>
            /\ last'.err = "EOF"
            /\ last'.count = 0
            /\ pos' = pos
            /\ RowFmt' = RowFmt
            /\ hasNextResultSet' = hasNextResultSet
            /\ dst' = <<>>]_vars

C18_Witness ==
    /\ last.op = "Next"
    /\ last.n = 0
    /\ last.err = "EOF"
    /\ last.count = 0
    /\ RowFmt.nil
    /\ pos = 0
    /\ Len(stream) = 2
    /\ stream[1] = RowPackage(<<>>)

\* A statement with two result sets, every row as wide as the format of its
\* result set and the second format with columns, read by the standard
\* iteration.
StandardCase ==
    /\ prog = ExecStandard
    /\ \E k \in 2..(Len(stream) - 2) :
          /\ SingleSet(SubSeq(stream, 1, k - 1) \o <<DonePackage(FALSE)>>)
          /\ stream[k] = DonePackage(TRUE)
          /\ SingleSet(SubSeq(stream, k + 1, Len(stream)))
          /\ stream[k + 1].Fmts # <<>>

\* The rows of s in send order, each with the column names of the latest
\* RowFormat before it.
RECURSIVE Sent(_, _, _)
Sent(s, i, cols) ==
    IF i > Len(s) THEN <<>>
    ELSE IF s[i].type = "RowFmt" THEN Sent(s, i + 1, Names(s[i].Fmts))
    ELSE IF s[i].type = "Row"
         THEN <<[row |-> s[i].DataFields, cols |-> cols]>> \o Sent(s, i + 1, cols)
    ELSE Sent(s, i + 1, cols)

\* The rows the Next calls have handed to the caller, in call order, each with
\* Columns() as it was then.
RECURSIVE Delivered(_, _)
Delivered(l, i) ==
    IF i > Len(l) THEN <<>>
    ELSE IF l[i].op = "Next" /\ l[i].err = "nil"
         THEN <<[row |-> l[i].row, cols |-> l[i].cols]>> \o Delivered(l, i + 1)
    ELSE Delivered(l, i + 1)

\* C19 as stated: when the standard iteration over such a statement has ended,
\* the rows it was handed are the rows the server sent, each once, in send
\* order and under the format of its own result set.
C19_AsStated ==
    (StandardCase /\ Len(log) >= 2 /\ Following = "done") =>
        Delivered(log, 1) = Sent(stream, 1, <<>>)

====
